---- MODULE Spec2Model ----
(***************************************************************************)
(* A model of the CHIP-8 interpreter of src/src/cpu.rs (struct Cpu) and of *)
(* the host operations of src/src/main.rs that reach it.                   *)
(*                                                                         *)
(* Representation.  Each field of Cpu is a variable of the same name.      *)
(*   ram     holds the cells of ram.data that differ from Ram::new(): the  *)
(*           byte at address a is data(s, a).  The overlay is kept normal  *)
(*           (no cell equal to its Ram::new() value), so equal memories    *)
(*           are equal values.                                             *)
(*   screen  is the set of <<row, column>> of display.screen that are true.*)
(*   fault   is "none" while the process runs and names the panic that     *)
(*           ended it otherwise; a panic ends the process, so no operation *)
(*           is enabled once fault # "none".  The fields keep the values   *)
(*           they had when the panic was raised.                           *)
(* The operations are operators on the record Cpu of all fields; an action *)
(* applies one operation and stores the resulting record.                  *)
(***************************************************************************)
EXTENDS Integers, Sequences, FiniteSets, TLC

VARIABLES v, stack, dt, st, ram, screen, pc, sp, i, cycle, clock_speed,
          pressed_keys, hold_flag, inst, fault

vars == <<v, stack, dt, st, ram, screen, pc, sp, i, cycle, clock_speed,
          pressed_keys, hold_flag, inst, fault>>

Cpu == [v |-> v, stack |-> stack, dt |-> dt, st |-> st, ram |-> ram,
        screen |-> screen, pc |-> pc, sp |-> sp, i |-> i, cycle |-> cycle,
        clock_speed |-> clock_speed, pressed_keys |-> pressed_keys,
        hold_flag |-> hold_flag, inst |-> inst, fault |-> fault]

Becomes(s) ==
    /\ v' = s.v /\ stack' = s.stack /\ dt' = s.dt /\ st' = s.st
    /\ ram' = s.ram /\ screen' = s.screen /\ pc' = s.pc /\ sp' = s.sp
    /\ i' = s.i /\ cycle' = s.cycle /\ clock_speed' = s.clock_speed
    /\ pressed_keys' = s.pressed_keys /\ hold_flag' = s.hold_flag
    /\ inst' = s.inst /\ fault' = s.fault

(* ------------------------------ constants ------------------------------ *)
PROGRAM_START == 512
RAM_SIZE == 4096
STACK_SIZE == 16
NUM_REGS == 16
NUM_KEYS == 16
DISPLAY_WIDTH == 64
DISPLAY_HEIGHT == 32
BYTE == 256
WORD == 65536

Panic(s, what) == [s EXCEPT !.fault = what]
Ok(s) == s.fault = "none"

(* ------------------------------- bits ---------------------------------- *)
RECURSIVE BitAnd(_, _)
BitAnd(a, b) ==
    IF a = 0 \/ b = 0 THEN 0
    ELSE (a % 2) * (b % 2) + 2 * BitAnd(a \div 2, b \div 2)

RECURSIVE BitXor(_, _)
BitXor(a, b) ==
    IF a = 0 THEN b
    ELSE IF b = 0 THEN a
    ELSE ((a + b) % 2) + 2 * BitXor(a \div 2, b \div 2)

BitOr(a, b) == a + b - BitAnd(a, b)

\* byte_to_bools(b)[j], j in 0..7: bit 7-j of b
byte_to_bools(b) == [j \in 0..7 |-> (b \div (2 ^ (7 - j))) % 2 # 0]

(* ------------------------------- memory -------------------------------- *)
\* dst[start .. start+len) := src, as slice::copy_from_slice
copy_from_slice(d, start, src) ==
    [a \in DOMAIN d |->
        IF a >= start /\ a < start + Len(src) THEN src[a - start + 1] ELSE d[a]]

\* The writes of Ram::new, in source order: <<first address, glyph bytes>>
FONT_WRITES ==
    << <<0,  <<240, 144, 144, 144, 240>> >>,
       <<5,  <<32, 96, 32, 32, 112>> >>,
       <<10, <<240, 16, 240, 128, 240>> >>,
       <<15, <<240, 16, 240, 16, 240>> >>,
       <<15, <<144, 144, 240, 16, 16>> >>,
       <<20, <<240, 128, 240, 16, 240>> >>,
       <<25, <<240, 128, 240, 144, 240>> >>,
       <<30, <<240, 16, 32, 64, 64>> >>,
       <<35, <<240, 144, 240, 144, 240>> >>,
       <<40, <<240, 144, 240, 16, 240>> >>,
       <<45, <<240, 144, 240, 144, 144>> >>,
       <<50, <<224, 144, 224, 144, 224>> >>,
       <<55, <<240, 128, 128, 128, 240>> >>,
       <<60, <<224, 144, 224, 144, 224>> >>,
       <<70, <<240, 128, 240, 128, 240>> >>,
       <<75, <<240, 128, 240, 128, 128>> >> >>

RECURSIVE FontApply(_, _)
FontApply(d, k) ==
    IF k > Len(FONT_WRITES) THEN d
    ELSE FontApply(copy_from_slice(d, FONT_WRITES[k][1], FONT_WRITES[k][2]), k + 1)

\* Ram::new().data
Ram_new == FontApply([a \in 0..(RAM_SIZE - 1) |-> 0], 1)

\* self.ram.data[a], a < RAM_SIZE
data(s, a) == IF a \in DOMAIN s.ram THEN s.ram[a] ELSE Ram_new[a]

\* self.ram.data[a] = b, a < RAM_SIZE
poke(r, a, b) ==
    IF b = Ram_new[a]
    THEN [c \in (DOMAIN r) \ {a} |-> r[c]]
    ELSE [c \in (DOMAIN r) \cup {a} |-> IF c = a THEN b ELSE r[c]]

Chip8Display_new == {}

\* no cell differs from Ram::new()
NoCells == [a \in {} |-> 0]

(* ---------------------------- construction ----------------------------- *)
new(clock) ==
    [v |-> [r \in 0..(NUM_REGS - 1) |-> 0],
     stack |-> [k \in 0..(STACK_SIZE - 1) |-> 0],
     dt |-> 0, st |-> 0,
     ram |-> NoCells,
     screen |-> Chip8Display_new,
     pc |-> PROGRAM_START, sp |-> 0, i |-> 0, cycle |-> 0,
     clock_speed |-> clock,
     pressed_keys |-> [k \in 0..(NUM_KEYS - 1) |-> FALSE],
     hold_flag |-> FALSE, inst |-> 0, fault |-> "none"]

\* a reset that leaves the timers and the key-wait flag as they are
reset_keeps_timers(s) ==
    [s EXCEPT !.v = [r \in 0..(NUM_REGS - 1) |-> 0],
              !.stack = [k \in 0..(STACK_SIZE - 1) |-> 0],
              !.sp = 0, !.pc = PROGRAM_START, !.i = 0,
              !.cycle = 0,
              !.pressed_keys = [k \in 0..(NUM_KEYS - 1) |-> FALSE],
              !.screen = Chip8Display_new,
              !.ram = NoCells]

reset(s) ==
    [s EXCEPT !.v = [r \in 0..(NUM_REGS - 1) |-> 0],
              !.stack = [k \in 0..(STACK_SIZE - 1) |-> 0],
              !.dt = 0, !.sp = 0, !.pc = PROGRAM_START, !.st = 0, !.i = 0,
              !.cycle = 0,
              !.pressed_keys = [k \in 0..(NUM_KEYS - 1) |-> FALSE],
              !.hold_flag = FALSE,
              !.screen = Chip8Display_new,
              !.ram = NoCells]

\* a load_rom that copies the program without resetting first
load_rom_without_reset(s, contents) ==
    LET n == Len(contents)
    IN IF PROGRAM_START + n > RAM_SIZE
       THEN Panic(s, "SliceOutOfRange")
       ELSE [s EXCEPT !.ram =
               [a \in {c \in PROGRAM_START..(PROGRAM_START + n - 1) :
                          contents[c - PROGRAM_START + 1] # Ram_new[c]}
                  |-> contents[a - PROGRAM_START + 1]]]

\* load_rom when the file opens and reads as `contents` (a sequence of bytes)
load_rom(s, contents) ==
    LET t == reset(s)
        n == Len(contents)
    IN IF PROGRAM_START + n > RAM_SIZE
       THEN Panic(t, "SliceOutOfRange")
       ELSE [t EXCEPT !.ram =
               [a \in {c \in PROGRAM_START..(PROGRAM_START + n - 1) :
                          contents[c - PROGRAM_START + 1] # Ram_new[c]}
                  |-> contents[a - PROGRAM_START + 1]]]

\* load_rom when File::open or read_to_end fails: Err is returned after reset
load_rom_err(s) == reset(s)

\* get_pressed_key, but searching from the last key down
get_pressed_key_highest(s) ==
    IF \E k \in 0..(NUM_KEYS - 1) : s.pressed_keys[k]
    THEN CHOOSE k \in 0..(NUM_KEYS - 1) :
            /\ s.pressed_keys[k]
            /\ \A j \in (k + 1)..(NUM_KEYS - 1) : ~s.pressed_keys[j]
    ELSE -1

get_pressed_key(s) ==
    IF \E k \in 0..(NUM_KEYS - 1) : s.pressed_keys[k]
    THEN CHOOSE k \in 0..(NUM_KEYS - 1) :
            /\ s.pressed_keys[k]
            /\ \A j \in 0..(k - 1) : ~s.pressed_keys[j]
    ELSE -1

(* -------------------------------- stack -------------------------------- *)
\* stack_pop: the record after the pop; the popped value is PopValue(s)
stack_pop(s) ==
    IF s.sp = 0 THEN Panic(s, "StackUnderflow")
    ELSE [s EXCEPT !.sp = s.sp - 1]

PopValue(s) == s.stack[s.sp - 1]

\* stack_push, but the full test is off by one
stack_push_off_by_one(s, val) ==
    IF s.sp > STACK_SIZE THEN Panic(s, "StackOverflow")
    ELSE [s EXCEPT !.stack[s.sp] = val, !.sp = s.sp + 1]

stack_push(s, val) ==
    IF s.sp = STACK_SIZE THEN Panic(s, "StackOverflow")
    ELSE [s EXCEPT !.stack[s.sp] = val, !.sp = s.sp + 1]

(* -------------------------------- timers ------------------------------- *)
\* update_timers, but the decrement wraps (0 becomes 255)
update_timers_wrapping(s) ==
    [s EXCEPT !.dt = (s.dt + BYTE - 1) % BYTE,
              !.st = (s.st + BYTE - 1) % BYTE]

update_timers(s) ==
    [s EXCEPT !.dt = IF s.dt > 0 THEN s.dt - 1 ELSE s.dt,
              !.st = IF s.st > 0 THEN s.st - 1 ELSE s.st]

\* ((1.0 / 60.0) / (1.0 / clock_speed)).round() as u64, for an integral rate:
\* round is half away from zero.  The f64 quotient equals clock_speed / 60
\* closely enough to round the same way for every rate used here (20, 60, 180,
\* 500, 1000); it falls just below the half for a few rates that are odd
\* multiples of 30 (210, 1410, ...), which are not used.
cycles_per_60hz(clock) == (2 * clock + 60) \div 120

sleep(s) == [s EXCEPT !.cycle = s.cycle + 1]

(* ----------------------------- instructions ---------------------------- *)
\* Each takes the record after the fetch (pc already advanced by 2).
ill(s) == Panic(s, "IllegalInstruction")

sys(s, addr) == [s EXCEPT !.pc = addr]

cls(s) == [s EXCEPT !.screen = {}]

ret(s) ==
    LET t == stack_pop(s)
    IN IF Ok(t) THEN [t EXCEPT !.pc = PopValue(s)] ELSE t

jmp(s, addrs) == [s EXCEPT !.pc = addrs]

\* call, but the address pushed is that of the CALL itself
call_pushes_own_address(s, addrs) ==
    LET t == stack_push(s, s.pc - 2)
    IN IF Ok(t) THEN [t EXCEPT !.pc = addrs] ELSE t

call(s, addrs) ==
    LET t == stack_push(s, s.pc)
    IN IF Ok(t) THEN [t EXCEPT !.pc = addrs] ELSE t

se(s, vx, byte) == IF s.v[vx] = byte THEN [s EXCEPT !.pc = s.pc + 2] ELSE s

sne(s, vx, byte) == IF s.v[vx] # byte THEN [s EXCEPT !.pc = s.pc + 2] ELSE s

sexy(s, vx, vy) == IF s.v[vx] = s.v[vy] THEN [s EXCEPT !.pc = s.pc + 2] ELSE s

ld(s, vx, byte) == [s EXCEPT !.v[vx] = byte]

add(s, vx, byte) == [s EXCEPT !.v[vx] = (s.v[vx] + byte) % BYTE]

ldxy(s, vx, vy) == [s EXCEPT !.v[vx] = s.v[vy]]

or(s, vx, vy) == [s EXCEPT !.v[vx] = BitOr(s.v[vx], s.v[vy])]

and(s, vx, vy) == [s EXCEPT !.v[vx] = BitAnd(s.v[vx], s.v[vy])]

xor(s, vx, vy) == [s EXCEPT !.v[vx] = BitXor(s.v[vx], s.v[vy])]

\* u8::overflowing_add / overflowing_sub: <<wrapped result, overflowed>>
overflowing_add(a, b) == <<(a + b) % BYTE, a + b >= BYTE>>
overflowing_sub(a, b) == <<(a - b + BYTE) % BYTE, a < b>>

\* adc, but the carry is tested on the wrapped byte result
adc_carry_from_result(s, vx, vy) ==
    LET r == overflowing_add(s.v[vx], s.v[vy])
        t == [s EXCEPT !.v[vx] = r[1]]
    IN [t EXCEPT !.v[15] = IF r[1] >= BYTE THEN 1 ELSE 0]

\* v[vx] = ret, then v[0xF] = carry
adc(s, vx, vy) ==
    LET r == overflowing_add(s.v[vx], s.v[vy])
        t == [s EXCEPT !.v[vx] = r[1]]
    IN [t EXCEPT !.v[15] = IF r[2] THEN 1 ELSE 0]

sub(s, vx, vy) ==
    LET r == overflowing_sub(s.v[vx], s.v[vy])
        t == [s EXCEPT !.v[vx] = r[1]]
    IN [t EXCEPT !.v[15] = IF r[2] THEN 1 ELSE 0]

\* v[0xF] = v[vx] & 1, then v[vx] = v[vx] >> 1 (reads v[vx] after the flag write)
shr(s, vx) ==
    LET t == [s EXCEPT !.v[15] = s.v[vx] % 2]
    IN [t EXCEPT !.v[vx] = t.v[vx] \div 2]

subn(s, vx, vy) ==
    LET r == overflowing_sub(s.v[vy], s.v[vx])
        t == [s EXCEPT !.v[vx] = r[1]]
    IN [t EXCEPT !.v[15] = IF r[2] THEN 1 ELSE 0]

\* shl, but the flag is the masked bit left in place (no >> 7)
shl_flag_unshifted(s, vx) ==
    LET t == [s EXCEPT !.v[15] = (s.v[vx] \div 128) * 128]
    IN [t EXCEPT !.v[vx] = (t.v[vx] * 2) % BYTE]

\* v[0xF] = (v[vx] & 0x80) >> 7, then v[vx] = v[vx] << 1 (reads v[vx] after the
\* flag write)
shl(s, vx) ==
    LET t == [s EXCEPT !.v[15] = s.v[vx] \div 128]
    IN [t EXCEPT !.v[vx] = (t.v[vx] * 2) % BYTE]

snexy(s, vx, vy) == IF s.v[vx] # s.v[vy] THEN [s EXCEPT !.pc = s.pc + 2] ELSE s

ldi(s, addrs) == [s EXCEPT !.i = addrs]

jpv0(s, addrs) == [s EXCEPT !.pc = addrs + s.v[0]]

\* rng.gen::<u8>() & byte, the generated byte being `random`
rnd(s, vx, byte, random) == [s EXCEPT !.v[vx] = BitAnd(random, byte)]

\* the column of bit j and the row of sprite row r: wrapped by one subtraction
drw_x(s, vx, j) ==
    IF s.v[vx] + j >= DISPLAY_WIDTH THEN s.v[vx] + j - DISPLAY_WIDTH ELSE s.v[vx] + j

drw_y(s, vy, r) ==
    IF s.v[vy] + r >= DISPLAY_HEIGHT THEN s.v[vy] + r - DISPLAY_HEIGHT ELSE s.v[vy] + r

\* the bits of a row the inner loop gets to: those before the first bit whose
\* column is outside the display, where screen[y][x] panics
drw_reached(s, vx) == {j \in 0..7 : \A k \in 0..j : drw_x(s, vx, k) < DISPLAY_WIDTH}

\* a drw that sets the pixels of the sprite instead of XORing them
set_pixels(pixels, row) == pixels \cup row

\* screen[y][x] ^= bit, for the set bits of one row
xor_pixels(pixels, row) == (pixels \ row) \cup (row \ pixels)

\* The outer loop of drw from row r on; flag is the collision flag so far.
RECURSIVE drw_loop(_, _, _, _, _, _)
drw_loop(s, vx, vy, n, r, flag) ==
    IF r >= n THEN [s EXCEPT !.v[15] = IF flag THEN 1 ELSE 0]
    ELSE IF s.i + r >= RAM_SIZE THEN Panic(s, "IndexOutOfBounds")
    ELSE
      LET bits == byte_to_bools(data(s, s.i + r))
          y == drw_y(s, vy, r)
          reached == drw_reached(s, vx)
          row == {<<y, drw_x(s, vx, j)>> : j \in {k \in reached : bits[k]}}
          t == [s EXCEPT !.screen = xor_pixels(s.screen, row)]
      IN IF y >= DISPLAY_HEIGHT THEN Panic(s, "IndexOutOfBounds")
         ELSE IF reached # 0..7 THEN Panic(t, "IndexOutOfBounds")
         ELSE drw_loop(t, vx, vy, n, r + 1, flag \/ (row \cap s.screen # {}))

drw(s, vx, vy, n) ==
    IF n > 15 THEN Panic(s, "SpriteTooLarge") ELSE drw_loop(s, vx, vy, n, 0, FALSE)

skp(s, key) == IF s.pressed_keys[key] THEN [s EXCEPT !.pc = s.pc + 2] ELSE s

sknp(s, key) == IF ~s.pressed_keys[key] THEN [s EXCEPT !.pc = s.pc + 2] ELSE s

ldvdt(s, vx) == [s EXCEPT !.v[vx] = s.dt]

ldk(s, vx, key) == [s EXCEPT !.v[vx] = key]

lddt(s, vx) == [s EXCEPT !.dt = s.v[vx]]

ldst(s, vx) == [s EXCEPT !.st = s.v[vx]]

addi(s, vx) == [s EXCEPT !.i = (s.i + s.v[vx]) % WORD]

ldsi(s, vx) ==
    IF s.v[vx] <= 15 THEN [s EXCEPT !.i = 5 * s.v[vx]] ELSE Panic(s, "InvalidDigit")

\* three writes, all to ram.data[idx]
ldbcd(s, vx) ==
    LET idx == s.i
    IN IF idx >= RAM_SIZE THEN Panic(s, "IndexOutOfBounds")
       ELSE LET r1 == poke(s.ram, idx, s.v[vx] \div 100)
                r2 == poke(r1, idx, (s.v[vx] % 100) \div 10)
                r3 == poke(r2, idx, s.v[vx] % 10)
            IN [s EXCEPT !.ram = r3]

\* the loop of cpvi from index k on
RECURSIVE cpvi_loop(_, _, _)
cpvi_loop(s, vx, k) ==
    IF k > vx THEN s
    ELSE IF s.i + k >= RAM_SIZE THEN Panic(s, "IndexOutOfBounds")
    ELSE cpvi_loop([s EXCEPT !.ram = poke(s.ram, s.i + k, s.v[k])], vx, k + 1)

\* cpvi, but copying V0 up to Vx exclusive
cpvi_exclusive(s, vx) == IF vx = 0 THEN s ELSE cpvi_loop(s, vx - 1, 0)

cpvi(s, vx) == cpvi_loop(s, vx, 0)

\* the loop of ldiv from index j on
RECURSIVE ldiv_loop(_, _, _)
ldiv_loop(s, vx, j) ==
    IF j > vx THEN s
    ELSE IF s.i + j >= RAM_SIZE THEN Panic(s, "IndexOutOfBounds")
    ELSE ldiv_loop([s EXCEPT !.v[j] = data(s, s.i + j)], vx, j + 1)

ldiv(s, vx) == ldiv_loop(s, vx, 0)

(* --------------------------------- tick -------------------------------- *)
\* the match on (inst_hi & 0xF0) >> 4, after the fetch
dispatch(s, inst_hi, inst_lo, random) ==
    LET op == inst_hi \div 16
        x == inst_hi % 16
        y == inst_lo \div 16
        n == inst_lo % 16
        kk == inst_lo
        nnn == s.inst % 4096
    IN CASE op = 0 -> IF inst_lo = 224 THEN cls(s)
                      ELSE IF inst_lo = 238 THEN ret(s)
                      ELSE sys(s, nnn)
         [] op = 1 -> jmp(s, nnn)
         [] op = 2 -> call(s, nnn)
         [] op = 3 -> se(s, x, kk)
         [] op = 4 -> sne(s, x, kk)
         [] op = 5 -> sexy(s, x, y)
         [] op = 6 -> ld(s, x, kk)
         [] op = 7 -> add(s, x, kk)
         [] op = 8 -> CASE n = 0 -> ldxy(s, x, y)
                        [] n = 1 -> or(s, x, y)
                        [] n = 2 -> and(s, x, y)
                        [] n = 3 -> xor(s, x, y)
                        [] n = 4 -> adc(s, x, y)
                        [] n = 5 -> sub(s, x, y)
                        [] n = 6 -> shr(s, x)
                        [] n = 7 -> subn(s, x, y)
                        [] n = 14 -> shl(s, x)
                        [] OTHER -> ill(s)
         [] op = 9 -> snexy(s, x, y)
         [] op = 10 -> ldi(s, nnn)
         [] op = 11 -> jpv0(s, nnn)
         [] op = 12 -> rnd(s, x, kk, random)
         [] op = 13 -> drw(s, x, y, n)
         [] op = 14 -> CASE inst_lo = 158 -> skp(s, x)
                         [] inst_lo = 161 -> sknp(s, x)
                         [] OTHER -> ill(s)
         [] op = 15 -> CASE inst_lo = 7 -> ldvdt(s, x)
                         [] inst_lo = 10 ->
                              IF get_pressed_key(s) # -1
                              THEN ldk(s, x, get_pressed_key(s))
                              ELSE [s EXCEPT !.hold_flag = TRUE]
                         [] inst_lo = 21 -> lddt(s, x)
                         [] inst_lo = 24 -> ldst(s, x)
                         [] inst_lo = 30 -> addi(s, x)
                         [] inst_lo = 41 -> ldsi(s, x)
                         [] inst_lo = 51 -> ldbcd(s, x)
                         [] inst_lo = 85 -> cpvi(s, x)
                         [] inst_lo = 101 -> ldiv(s, x)
                         [] OTHER -> ill(s)

\* the branch of tick taken when !hold_flag: fetch two bytes, then dispatch
fetch_execute(s, random) ==
    IF s.pc >= RAM_SIZE THEN Panic(s, "IndexOutOfBounds")
    ELSE IF s.pc + 1 >= RAM_SIZE
    THEN Panic([s EXCEPT !.pc = s.pc + 1], "IndexOutOfBounds")
    ELSE LET inst_hi == data(s, s.pc)
             inst_lo == data(s, s.pc + 1)
             t == [s EXCEPT !.pc = s.pc + 2, !.inst = inst_hi * 256 + inst_lo]
         IN dispatch(t, inst_hi, inst_lo, random)

\* hold, but a tick that finds no key moves pc back onto the Fx0A
hold_rewinds_pc(s) ==
    LET t == IF get_pressed_key(s) # -1
             THEN [ldk(s, (s.inst % 4096) \div 256, get_pressed_key(s))
                      EXCEPT !.hold_flag = FALSE]
             ELSE sleep([s EXCEPT !.pc = s.pc - 2])
    IN sleep(t)

\* hold, but the destination register is taken from the y field of inst
hold_wrong_field(s) ==
    LET t == IF get_pressed_key(s) # -1
             THEN [ldk(s, (s.inst % 256) \div 16, get_pressed_key(s))
                      EXCEPT !.hold_flag = FALSE]
             ELSE sleep(s)
    IN sleep(t)

\* the branch of tick taken when hold_flag
hold(s) ==
    LET t == IF get_pressed_key(s) # -1
             THEN [ldk(s, (s.inst % 4096) \div 256, get_pressed_key(s))
                      EXCEPT !.hold_flag = FALSE]
             ELSE sleep(s)
    IN sleep(t)

\* the end of tick: the 60 Hz cadence and the cycle count
timer_cadence(s) ==
    LET per == cycles_per_60hz(s.clock_speed)
    IN IF per = 0 THEN Panic(s, "RemainderByZero")
       ELSE LET t == IF s.cycle % per = 0 THEN update_timers(s) ELSE s
            IN [t EXCEPT !.cycle = t.cycle + 1]

tick(s, random) ==
    LET t == IF ~s.hold_flag THEN fetch_execute(s, random) ELSE hold(s)
    IN IF Ok(t) THEN timer_cadence(t) ELSE t

(* ------------------------------- programs ------------------------------ *)
\* The bytes of a ROM file holding the 16-bit words ws, high byte first
Asm(ws) == [k \in 1..(2 * Len(ws)) |->
              IF k % 2 = 1 THEN ws[(k + 1) \div 2] \div 256 ELSE ws[k \div 2] % 256]

\* LD VA,5; LD I,0; DRW VA,VA,5; LD V2,7; LD DT,V2; LD V3,K; ADD V3,1; JP 0x20A
ROM_KEY == Asm(<<27141, 40960, 55973, 25095, 61973, 62218, 29441, 4618>>)

\* LD V0,3; LD DT,V0; LD V1,5; LD ST,V1; LD V2,DT; JP 0x208
ROM_TIMER == Asm(<<24579, 61461, 24837, 61720, 61959, 4616>>)

\* LD V0,60; LD DT,V0; JP 0x204
ROM_DELAY60 == Asm(<<24636, 61461, 4612>>)

\* k nested subroutines: level L (at 0x200 + 4L) is "CALL level L+1; RET",
\* level k is "RET"
ChainRom(k) ==
    Asm([w \in 1..(2 * k + 1) |->
           IF w <= 2 * k /\ w % 2 = 1 THEN 8192 + PROGRAM_START + 2 * (w + 1)
           ELSE 238])

\* LD Vx,a; LD Vy,b; 8xyN; JP 0x206
AluRom(x, y, a, b, n) ==
    Asm(<<24576 + 256 * x + a, 24576 + 256 * y + b,
          32768 + 256 * x + 16 * y + n, 4614>>)

(* -------------------------------- bounds ------------------------------- *)
MaxCycle == 24
MaxChain == 17
MaxStackCycle == 36
MaxTimerCycle == 1010
MaxAluCycle == 3

ClockRates == {20, 60, 180, 500}
HostKeys == {1, 4, 15}
RandomBytes == {0, 90, 255}
Roms == {ROM_KEY, ROM_TIMER}
Bytes == 0..(BYTE - 1)
ByteSamples == {0, 1, 127, 128, 255}
AluOps == {4, 5, 7}
AluRegs == {<<0, 1>>, <<4, 4>>, <<2, 15>>}
\* all bytes in V0 and V1; sampled Vx and all Vy for the other register pairs
AluOperands(xy) == IF xy = <<0, 1>> THEN Bytes ELSE ByteSamples

(* -------------------------------- actions ------------------------------ *)
InitAs(s) ==
    /\ v = s.v /\ stack = s.stack /\ dt = s.dt /\ st = s.st
    /\ ram = s.ram /\ screen = s.screen /\ pc = s.pc /\ sp = s.sp
    /\ i = s.i /\ cycle = s.cycle /\ clock_speed = s.clock_speed
    /\ pressed_keys = s.pressed_keys /\ hold_flag = s.hold_flag
    /\ inst = s.inst /\ fault = s.fault

Running == fault = "none"

\* the bytes rng.gen::<u8>() may return in the next tick: drawn only when the
\* instruction at pc is Cxkk (rnd), the one place a random byte is generated
RandomDraws(s) ==
    IF ~s.hold_flag /\ s.pc < RAM_SIZE /\ data(s, s.pc) \div 16 = 12
    THEN RandomBytes ELSE {0}

\* one call of tick() by the host
TickStep ==
    /\ Running
    /\ \E random \in RandomDraws(Cpu) : Becomes(tick(Cpu, random))

\* the host calls tick(); the cycle count is capped at `upto`
TickUpTo(upto) ==
    /\ cycle < upto
    /\ TickStep

Tick == TickUpTo(MaxCycle)

Reset ==
    /\ Running
    /\ Becomes(reset(Cpu))

LoadRom ==
    /\ Running
    /\ \E contents \in Roms : Becomes(load_rom(Cpu, contents))

LoadRomErr ==
    /\ Running
    /\ Becomes(load_rom_err(Cpu))

KeyDown ==
    /\ Running
    /\ \E k \in HostKeys : Becomes([Cpu EXCEPT !.pressed_keys[k] = TRUE])

KeyUp ==
    /\ Running
    /\ \E k \in HostKeys : Becomes([Cpu EXCEPT !.pressed_keys[k] = FALSE])

Init == \E clock \in ClockRates : InitAs(new(clock))

Next == Tick \/ Reset \/ LoadRom \/ LoadRomErr \/ KeyDown \/ KeyUp

Spec == Init /\ [][Next]_vars

\* Nested subroutine programs at the default clock rate
InitStack == InitAs(new(500))

LoadChain ==
    /\ Running
    /\ \E k \in 1..MaxChain : Becomes(load_rom(Cpu, ChainRom(k)))

TickStack == TickUpTo(MaxStackCycle)

NextStack == LoadChain \/ TickStack

SpecStack == InitStack /\ [][NextStack]_vars

\* A long run at 1000 Hz
InitTimer == InitAs(new(1000))

LoadDelay60 ==
    /\ Running
    /\ Becomes(load_rom(Cpu, ROM_DELAY60))

TickTimer == TickUpTo(MaxTimerCycle)

NextTimer == LoadDelay60 \/ TickTimer

SpecTimer == InitTimer /\ [][NextTimer]_vars

\* The register-register arithmetic instructions on all byte operands
InitAlu ==
    \E xy \in AluRegs, n \in AluOps, b \in Bytes :
        \E a \in AluOperands(xy) :
            InitAs(load_rom(new(500), AluRom(xy[1], xy[2], a, b, n)))

TickAlu == TickUpTo(MaxAluCycle)

NextAlu == TickAlu

SpecAlu == InitAlu /\ [][NextAlu]_vars

(* ------------------------- reading the next tick ----------------------- *)
\* the big-endian word at address a
Word(s, a) == data(s, a) * 256 + data(s, a + 1)

\* the next tick fetches, and both bytes are inside memory
Fetching == Running /\ ~hold_flag /\ pc + 1 < RAM_SIZE

\* the instruction the next tick fetches (when Fetching)
NextInst == Word(Cpu, pc)

\* fields of an instruction word
OpOf(w) == w \div 4096
XOf(w) == (w % 4096) \div 256
YOf(w) == (w % 256) \div 16
NOf(w) == w % 16
KKOf(w) == w % 256
NNNOf(w) == w % 4096

IsLdK(w) == OpOf(w) = 15 /\ KKOf(w) = 10
IsCall(w) == OpOf(w) = 2
IsRet(w) == w = 238

NoKeyHeld == \A k \in 0..(NUM_KEYS - 1) : ~pressed_keys[k]

(* =============================== claims ================================ *)

(* ---- C1 ---- *)
\* A tick that executes Fx0A with no key held sets PC to `after` and enters
\* AwaitingKey (hold_flag); a tick in AwaitingKey with no key held leaves PC,
\* V0..VF, I, the stack, the stack pointer, memory and the framebuffer as they
\* were and stays in AwaitingKey.
C1_Step(after) ==
    /\ (TickStep /\ Fetching /\ IsLdK(NextInst) /\ NoKeyHeld)
          => (pc' = after /\ hold_flag')
    /\ (TickStep /\ hold_flag /\ NoKeyHeld)
          => /\ pc' = pc /\ v' = v /\ i' = i /\ stack' = stack /\ sp' = sp
             /\ ram' = ram /\ screen' = screen
             /\ hold_flag'

\* C1 as claimed: the tick that executes Fx0A with no key held leaves PC
\* unchanged and enters AwaitingKey, and every later tick with no key held
\* leaves PC, registers, stack, memory and framebuffer unchanged and stays in
\* AwaitingKey.
C1_StallLeavesPcUnchanged == [][C1_Step(pc)]_vars

\* C1 as amended: the tick that executes Fx0A with no key held advances PC by 2
\* (past the Fx0A, as every fetch does) and enters AwaitingKey; every later
\* tick with no key held leaves PC, registers, stack, memory and framebuffer
\* unchanged and stays in AwaitingKey.
C1_StallAdvancesPcOnce == [][C1_Step(pc + 2)]_vars

\* ROM_KEY stalled at its Fx0A (0x20A) with the sprite drawn and registers
\* set, and at least one further tick was spent waiting with no key held.
C1_Witness ==
    /\ Running /\ hold_flag /\ NoKeyHeld
    /\ inst = 62218 /\ pc = 524 /\ cycle >= 9
    /\ screen # {} /\ v[10] = 5

(* ---- C2 ---- *)
\* In AwaitingKey the word at pc - 2 is the Fx0A that stalled; a tick in
\* AwaitingKey with a key held stores a held key in Vx (x the register field of
\* that Fx0A) and changes no other register, leaves AwaitingKey, and fetches
\* nothing (inst and PC keep their values, so PC is the Fx0A address + 2);
\* every tick outside AwaitingKey fetches the word at PC.
C2_Step ==
    /\ (TickStep /\ hold_flag /\ ~NoKeyHeld)
          => /\ pc >= 2 /\ IsLdK(Word(Cpu, pc - 2))
             /\ pressed_keys[v'[XOf(Word(Cpu, pc - 2))]]
             /\ \A r \in 0..(NUM_REGS - 1) :
                    r # XOf(Word(Cpu, pc - 2)) => v'[r] = v[r]
             /\ ~hold_flag'
             /\ inst' = inst /\ pc' = pc /\ ram' = ram
    /\ (TickStep /\ Fetching) => inst' = NextInst

\* C2: while in AwaitingKey, the first tick on which a key is held stores that
\* key's value in Vx (x the register field of the stalled Fx0A), leaves
\* AwaitingKey without fetching, and the following tick fetches the instruction
\* at the Fx0A address + 2.
C2_KeyResumes == [][C2_Step]_vars

\* ROM_KEY waited at least one tick at its Fx0A (reached at cycle 6), then key
\* 4 was consumed into V3 with no fetch: inst is still the Fx0A, PC is 0x20C.
C2_Witness ==
    /\ Running /\ ~hold_flag
    /\ inst = 62218 /\ pc = 524 /\ cycle = 11
    /\ v[3] = 4 /\ pressed_keys[4] /\ ~pressed_keys[1]

(* ---- C3 ---- *)
\* memory holds exactly the program ChainRom(k)
ChainLoaded(k) == ram = load_rom(Cpu, ChainRom(k)).ram

\* a CALL below depth 16 pushes (no StackOverflow), a CALL at depth 16 is the
\* fault StackOverflow, a RET at depth 0 is the fault StackUnderflow
C3_Step ==
    /\ (TickStep /\ Fetching /\ IsCall(NextInst))
          => IF sp < STACK_SIZE
             THEN fault' # "StackOverflow" /\ sp' = sp + 1
             ELSE fault' = "StackOverflow" /\ sp' = sp
    /\ (TickStep /\ Fetching /\ IsRet(NextInst) /\ sp = 0)
          => fault' = "StackUnderflow" /\ sp' = sp

\* from the empty stack of a fresh load, c consecutive CALLs (c <= 16) leave
\* the VM running at depth c, and the only fault a chain deeper than 16 ends in
\* is StackOverflow, raised at depth 16
C3_Chain ==
    \A k \in (STACK_SIZE + 1)..MaxChain :
        ChainLoaded(k) =>
            /\ \A c \in 0..STACK_SIZE : (cycle = c /\ Running) => sp = c
            /\ cycle < STACK_SIZE => Running
            /\ ~Running => (fault = "StackOverflow" /\ sp = STACK_SIZE
                            /\ cycle = STACK_SIZE)

\* C3: 16 consecutive CALLs from an empty stack succeed, a 17th is a fatal
\* StackOverflow, a RET at depth 0 is a fatal StackUnderflow, and the stack
\* pointer is within 0..16 in every reachable state.
C3_StackBounds ==
    /\ [](sp \in 0..STACK_SIZE /\ C3_Chain)
    /\ [][C3_Step]_vars

\* the 17th CALL of a 17-deep chain has just faulted, at depth 16
C3_Witness ==
    /\ ChainLoaded(17) /\ fault = "StackOverflow" /\ sp = 16 /\ cycle = 16
    /\ IsCall(inst)

(* ---- C4 ---- *)
\* CALL nnn at address pc pushes pc + 2 and jumps to nnn; RET jumps to the
\* top of the stack and pops it; no other tick touches the stack
C4_Step ==
    /\ (TickStep /\ Fetching /\ IsCall(NextInst) /\ sp < STACK_SIZE)
          => /\ stack' = [stack EXCEPT ![sp] = pc + 2]
             /\ sp' = sp + 1
             /\ pc' = NNNOf(NextInst)
    /\ (TickStep /\ Fetching /\ IsRet(NextInst) /\ sp > 0)
          => /\ pc' = stack[sp - 1]
             /\ sp' = sp - 1
             /\ stack' = stack
    /\ (TickStep /\ ~(Fetching /\ (IsCall(NextInst) \/ IsRet(NextInst))))
          => (stack' = stack /\ sp' = sp)

\* a k-deep chain (k <= 16), c ticks after its load: during the k CALLs the
\* stack holds the return addresses 0x202 + 4L of levels L < c; the j-th RET
\* (c = k + j) sets PC to the return address of level k - j, so the k RETs
\* visit the return addresses in reverse order of the calls and end at depth 0
C4_Chain ==
    \A k \in 1..STACK_SIZE :
        (ChainLoaded(k) /\ Running) =>
            /\ cycle <= k =>
                  /\ sp = cycle
                  /\ pc = PROGRAM_START + 4 * cycle
                  /\ \A L \in 0..(cycle - 1) : stack[L] = PROGRAM_START + 4 * L + 2
            /\ (k < cycle /\ cycle <= 2 * k) =>
                  /\ sp = 2 * k - cycle
                  /\ pc = PROGRAM_START + 4 * (2 * k - cycle) + 2
            /\ cycle <= 2 * k

\* C4: CALL pushes the address after the CALL and jumps, RET pops into PC, and
\* after k nested CALLs from an empty stack the k RETs set PC to the k return
\* addresses in reverse order and leave depth 0.
C4_CallRetLifo ==
    /\ []C4_Chain
    /\ [][C4_Step]_vars

\* a 16-deep chain has made its 16 CALLs and its 16 RETs: back after the first
\* CALL (0x202) at depth 0
C4_Witness ==
    /\ ChainLoaded(16) /\ Running /\ cycle = 32 /\ sp = 0 /\ pc = 514
    /\ IsRet(inst)

(* ---- C5 ---- *)
\* C5: at 1000 Hz, the delay timer set to 60 and not rewritten reads 0 after
\* exactly 1000 further calls of tick().  (ROM_DELAY60 sets DT to 60 in its
\* second tick and then only jumps, so 1000 further ticks end at cycle 1002.)
C5_Delay60ZeroAfter1000Ticks ==
    (Running /\ clock_speed = 1000 /\ inst = 4612 /\ cycle = 1002) => dt = 0

(* ---- C6 ---- *)
\* C6: the cycle counter that the 60 Hz cadence takes modulo cycles_per_60hz
\* advances by exactly one per call of tick(), in Running and in AwaitingKey,
\* so that one tick in every cycles_per_60hz decrements the timers.
C6_CycleAdvancesByOnePerTick ==
    [][(TickStep /\ Running') => cycle' = cycle + 1]_vars

(* ---- C7 ---- *)
\* C7: for every positive clock rate the divisor cycles_per_60hz used by tick()
\* is at least 1 and tick() never takes a remainder by zero.
C7_DivisorAtLeastOne ==
    [][(TickStep /\ clock_speed > 0)
          => (cycles_per_60hz(clock_speed) >= 1 /\ fault' # "RemainderByZero")]_vars

(* ---- C8 ---- *)
\* a timer value after one decrement
Decremented(timer) == IF timer > 0 THEN timer - 1 ELSE 0

\* the value of cycle that the cadence test of the next tick reads
CadenceCycle ==
    IF ~hold_flag THEN cycle ELSE IF NoKeyHeld THEN cycle + 2 ELSE cycle + 1

\* the next tick executes Fx15 or Fx18, which write a timer
WritesTimer ==
    Fetching /\ OpOf(NextInst) = 15 /\ KKOf(NextInst) \in {21, 24}

\* a tick that completes and does not execute Fx15/Fx18 either decrements both
\* timers (on the cadence) or leaves both; a decrement takes 1 from a nonzero
\* timer and leaves a zero timer at 0, each timer by its own value
C8_Step ==
    (TickStep /\ Running' /\ ~WritesTimer) =>
        IF CadenceCycle % cycles_per_60hz(clock_speed) = 0
        THEN dt' = Decremented(dt) /\ st' = Decremented(st)
        ELSE dt' = dt /\ st' = st

AluTick(n) ==
    /\ TickStep /\ Fetching
    /\ OpOf(NextInst) = 8 /\ NOf(NextInst) = n /\ XOf(NextInst) # 15

\* 8xy5: Vx = (Vx - Vy) mod 256, VF = 1 iff Vx >= Vy;
\* 8xy7: Vx = (Vy - Vx) mod 256, VF = 1 iff Vy >= Vx
C9_Step ==
    LET x == XOf(NextInst)
        y == YOf(NextInst)
    IN /\ AluTick(5) =>
             /\ v'[x] = (v[x] - v[y] + BYTE) % BYTE
             /\ v'[15] = IF v[x] >= v[y] THEN 1 ELSE 0
       /\ AluTick(7) =>
             /\ v'[x] = (v[y] - v[x] + BYTE) % BYTE
             /\ v'[15] = IF v[y] >= v[x] THEN 1 ELSE 0

\* C9: for all bytes Vx, Vy (x # 0xF), 8xy5 sets Vx to (Vx - Vy) mod 256 and VF
\* to 1 exactly when Vx >= Vy (no borrow), else 0; 8xy7 sets Vx to
\* (Vy - Vx) mod 256 and VF to 1 exactly when Vy >= Vx, else 0.
C9_SubtractFlagIsNoBorrow == [][C9_Step]_vars

(* ---- C10 ---- *)
\* 8xy4: Vx = (Vx + Vy) mod 256, VF = 1 iff Vx + Vy > 255
C10_Step ==
    LET x == XOf(NextInst)
        y == YOf(NextInst)
    IN AluTick(4) =>
          /\ v'[x] = (v[x] + v[y]) % BYTE
          /\ v'[15] = IF v[x] + v[y] > 255 THEN 1 ELSE 0

\* C10: for all bytes Vx, Vy (x # 0xF), 8xy4 sets Vx to (Vx + Vy) mod 256 and
\* VF to 1 exactly when Vx + Vy > 255, else 0.
C10_AddSetsCarry == [][C10_Step]_vars

\* LD V0,0xFF; LD V1,0x01; ADD V0,V1 has run: V0 = 0x00 with VF = 1
C10_Witness ==
    /\ Running /\ inst = 32788 /\ cycle = 3
    /\ data(Cpu, 513) = 255 /\ v[0] = 0 /\ v[1] = 1 /\ v[15] = 1

(* ======================= C11 .. C20 ==================================== *)

(* ------------------------ binary-coded decimal ------------------------- *)
\* LD Vx, a ; LD I, addr ; LD B, Vx ; JP 0x206
BcdRom(x, a, addr) ==
    Asm(<<6 * 4096 + x * 256 + a, 10 * 4096 + addr, 15 * 4096 + x * 256 + 51, 4614>>)

BcdRegs == {0, 7, 15}

\* inside the font table, in free memory, and the last address with I+2 in memory
BcdAddrs == {0, 768, 4093}

MaxBcdCycle == 4

InitBcd ==
    \E x \in BcdRegs, a \in Bytes, addr \in BcdAddrs :
        InitAs(load_rom(new(500), BcdRom(x, a, addr)))

TickBcd == TickUpTo(MaxBcdCycle)

NextBcd == TickBcd

SpecBcd == InitBcd /\ [][NextBcd]_vars

IsLdBcd(w) == OpOf(w) = 15 /\ KKOf(w) = 51

(* ---- C11 ---- *)
C11_Step ==
    (TickStep /\ Fetching /\ IsLdBcd(NextInst) /\ i + 2 < RAM_SIZE) =>
        /\ data(Cpu', i) = v[XOf(NextInst)] \div 100
        /\ data(Cpu', i + 1) = (v[XOf(NextInst)] \div 10) % 10
        /\ data(Cpu', i + 2) = v[XOf(NextInst)] % 10
        /\ 100 * data(Cpu', i) + 10 * data(Cpu', i + 1) + data(Cpu', i + 2)
               = v[XOf(NextInst)]
        /\ \A a \in 0..(RAM_SIZE - 1) :
               a \notin {i, i + 1, i + 2} => data(Cpu', a) = data(Cpu, a)

\* C11: for every byte value of Vx, the tick that executes Fx33 leaves the
\* hundreds digit of Vx in memory[I], the tens digit in memory[I+1] and the
\* ones digit in memory[I+2] (so 100*memory[I] + 10*memory[I+1] + memory[I+2]
\* is Vx), and no other memory cell changes.
C11_BcdStoresThreeDigits == [][C11_Step]_vars

\* what the tick of Fx33 does to memory: memory[I] becomes the ones digit of
\* Vx and every other cell, memory[I+1] and memory[I+2] included, is unchanged
C11_Observed_Step ==
    (TickStep /\ Fetching /\ IsLdBcd(NextInst) /\ i + 2 < RAM_SIZE) =>
        /\ data(Cpu', i) = v[XOf(NextInst)] % 10
        /\ \A a \in 0..(RAM_SIZE - 1) : a # i => data(Cpu', a) = data(Cpu, a)

C11_Observed == [][C11_Observed_Step]_vars

(* ------------------------------ font table ----------------------------- *)
\* the glyph the table of Ram::new defines for digit d
FontGlyph(d) == FONT_WRITES[d + 1][2]

(* ---- C12 ---- *)
\* C12: after construction and after every reset (cycle = 0), the five bytes
\* at addresses 5*d .. 5*d+4 are the glyph of digit d, for every d in 0..15:
\* the 16 glyphs lie contiguously from address 0 without gap or overlap.
C12_GlyphsContiguous ==
    (Running /\ cycle = 0) =>
        \A d \in 0..15 : \A j \in 0..4 : data(Cpu, 5 * d + j) = FontGlyph(d)[j + 1]

\* where the glyphs are: digits 0..2 at 5*d, digit 3 overwritten by digit 4
\* at 15..19, digits 5..D one glyph early at 5*(d-1), 65..69 zero, E and F at 5*d
C12_Observed ==
    (Running /\ cycle = 0) =>
        /\ \A d \in {0, 1, 2, 14, 15} : \A j \in 0..4 :
               data(Cpu, 5 * d + j) = FontGlyph(d)[j + 1]
        /\ \A d \in 4..13 : \A j \in 0..4 :
               data(Cpu, 5 * (d - 1) + j) = FontGlyph(d)[j + 1]
        /\ \A a \in 65..69 : data(Cpu, a) = 0

(* -------------------------------- drawing ------------------------------ *)
\* the rows of the sprite the programs draw
SPRITE == <<255, 129, 165, 24, 66, 1, 128, 60, 219, 36, 231, 15, 240, 170, 85>>

\* LD I, 0x20E ; DRW V0, V0, 5 ; LD V1, a ; LD V2, b ; DRW V1, V2, n ;
\* DRW V1, V2, n ; JP 0x20C ; the sprite rows at 0x20E
DrawRom(a, b, n) ==
    Asm(<<41486, 53253, 24832 + a, 25088 + b, 53536 + n, 53536 + n, 4620>>) \o SPRITE

DrawColumns == {0, 57, 64, 120, 121, 128, 255}
DrawRows == {0, 18, 31, 49, 50, 64, 255}
DrawHeights == {0, 1, 15}

MaxDrawCycle == 7

InitDraw ==
    \E n \in DrawHeights :
        \E ab \in (Bytes \X DrawRows) \cup (DrawColumns \X Bytes) :
            InitAs(load_rom(new(500), DrawRom(ab[1], ab[2], n)))

TickDraw == TickUpTo(MaxDrawCycle)

NextDraw == TickDraw

SpecDraw == InitDraw /\ [][NextDraw]_vars

IsDrw(w) == OpOf(w) = 13

\* the pixels the sprite of n rows at I has a set bit for, placed at column
\* vx, row vy and wrapped modulo the display size
SpritePixels(s, vx, vy, n) ==
    {<<(vy + r) % DISPLAY_HEIGHT, (vx + j) % DISPLAY_WIDTH>> :
        <<r, j>> \in {rj \in (0..(n - 1)) \X (0..7) :
                          byte_to_bools(data(s, s.i + rj[1]))[rj[2]]}}

Toggled(pixels, sprite) == (pixels \ sprite) \cup (sprite \ pixels)

(* ---- C13 ---- *)
C13_Step ==
    (TickStep /\ Fetching /\ IsDrw(NextInst) /\ i + NOf(NextInst) <= RAM_SIZE) =>
        /\ Running'
        /\ screen' = Toggled(screen, SpritePixels(Cpu, v[XOf(NextInst)],
                                                  v[YOf(NextInst)], NOf(NextInst)))

\* C13: for every byte value of Vx and Vy and every height n in 0..15, the
\* tick that executes Dxyn toggles exactly the set sprite bits at column
\* (Vx + j) mod 64 and row (Vy + i) mod 32 (j < 8, i < n), leaves every other
\* pixel alone, and never faults because of the coordinates.
C13_DrawWrapsModulo == [][C13_Step]_vars

\* the coordinates drw handles: one subtraction of the display size suffices
DrawInRange(s, w) ==
    NOf(w) = 0 \/ (s.v[XOf(w)] + 7 < 2 * DISPLAY_WIDTH
                   /\ s.v[YOf(w)] + NOf(w) - 1 < 2 * DISPLAY_HEIGHT)

\* what drw does: modular placement while Vx + 7 < 128 and Vy + n - 1 < 64,
\* an index-out-of-bounds fault for every other draw of at least one row
C13_Observed_Step ==
    (TickStep /\ Fetching /\ IsDrw(NextInst) /\ i + NOf(NextInst) <= RAM_SIZE) =>
        IF DrawInRange(Cpu, NextInst)
        THEN /\ Running'
             /\ screen' = Toggled(screen, SpritePixels(Cpu, v[XOf(NextInst)],
                                                       v[YOf(NextInst)], NOf(NextInst)))
        ELSE fault' = "IndexOutOfBounds"

C13_Observed == [][C13_Observed_Step]_vars

(* ---- C14 ---- *)
\* the framebuffer the programs prepare before the pair of draws: the first
\* five sprite rows at the origin
Background ==
    {<<r, j>> \in (0..4) \X (0..7) : byte_to_bools(SPRITE[r + 1])[j]}

\* the next two instructions are the same draw
FirstOfPair == Fetching /\ IsDrw(NextInst) /\ Word(Cpu, pc + 2) = NextInst

\* the next instruction is the draw just executed
SecondOfPair == Fetching /\ IsDrw(NextInst) /\ inst = NextInst

C14_Step ==
    (TickStep /\ SecondOfPair) =>
        /\ Running'
        /\ screen' = Background
        /\ (screen \ Background # {} => v'[15] = 1)

\* C14: before the first of two identical successive draws the framebuffer
\* is Background; the second draw completes, leaves the framebuffer equal to
\* Background again, and sets VF = 1 whenever the first draw turned on a
\* pixel (the framebuffer after it has a lit pixel outside Background).
C14_DrawTwiceRestores ==
    [](FirstOfPair => screen = Background) /\ [][C14_Step]_vars

\* a pair of draws that wraps around both edges has been executed: the first
\* draw lit pixels, the second restored the framebuffer and reported it
C14_Witness ==
    /\ Running /\ cycle = 6 /\ inst = 53536 + 15
    /\ v[1] = 120 /\ v[2] = 49
    /\ screen = Background /\ v[15] = 1

(* ------------------------------ loading ROMs --------------------------- *)
\* the bytes memory has room for from PROGRAM_START on
ROM_SPACE == RAM_SIZE - PROGRAM_START

\* a ROM file of n non-zero bytes, every word of it an ADD Vx, kk
FillRom(n) ==
    [k \in 1..n |-> IF k % 2 = 1 THEN 112 + ((k \div 2) % 16) ELSE 1 + (k % 255)]

\* file lengths around the capacity, and the smallest ones
RomSizes == {0, 1, ROM_SPACE, ROM_SPACE + 1}

LoadRoms == Roms \cup {FillRom(n) : n \in RomSizes}

MaxLoadCycle == 8

InitLoad == InitAs(new(500))

LoadAny ==
    /\ Running
    /\ \E contents \in LoadRoms : Becomes(load_rom(Cpu, contents))

TickLoad == TickUpTo(MaxLoadCycle)

NextLoad == LoadAny \/ TickLoad \/ Reset

SpecLoad == InitLoad /\ [][NextLoad]_vars

\* memory after load_rom of each file that fits (the same from every state,
\* reset() having made memory anew)
RomImages ==
    [contents \in {c \in LoadRoms : Len(c) <= ROM_SPACE} |->
        load_rom(new(500), contents).ram]

\* load_rom is called with a file whose bytes are `contents`
Loading(contents) ==
    /\ Running
    /\ Len(contents) <= ROM_SPACE => ram' = RomImages[contents]
    /\ Becomes(load_rom(Cpu, contents))

(* ---- C15 ---- *)
C15_Step ==
    \A contents \in LoadRoms :
        (Len(contents) > ROM_SPACE /\ Loading(contents)) =>
            /\ Running'
            /\ Cpu' = load_rom_err(Cpu)

\* C15: load_rom of a file longer than the 3584 bytes available from 0x200
\* returns an error to the caller like any failed load: no fault, nothing
\* written, the VM left in the freshly reset state.
C15_OversizedRomIsAnError == [][C15_Step]_vars

(* ---- C16 ---- *)
\* the fields reset() assigns have the values Cpu::new gives them
FieldsAsNew ==
    /\ v = [r \in 0..15 |-> 0] /\ i = 0 /\ pc = 512 /\ sp = 0
    /\ stack = [k \in 0..15 |-> 0] /\ dt = 0 /\ st = 0
    /\ screen = {} /\ ~hold_flag

\* memory r is Ram::new() with the bytes of `contents` from 0x200 on: the cells
\* r records (those that differ from Ram::new()) lie in the program region and
\* hold the file's bytes, and the region's other cells hold them unchanged
MemoryIs(r, contents) ==
    LET region == 512..(511 + Len(contents))
    IN /\ DOMAIN r \subseteq region
       /\ \A a \in DOMAIN r : r[a] = contents[a - 511]
       /\ \A a \in region \ DOMAIN r : Ram_new[a] = contents[a - 511]

C16_Step ==
    \A contents \in LoadRoms :
        (Len(contents) <= ROM_SPACE /\ Loading(contents)) =>
            /\ Running'
            /\ MemoryIs(ram', contents)
            /\ FieldsAsNew'

\* C16: whatever the VM's state, load_rom of n <= 3584 bytes leaves byte k of
\* the file at memory[0x200 + k] for every k < n, every other cell as Ram::new
\* made it, PC = 0x200, and registers, I, stack, stack pointer, timers,
\* framebuffer and key-wait flag in their reset state.
C16_LoadRomPostState == [][C16_Step]_vars

\* the largest ROM that fits has been loaded into a VM that had drawn and was
\* waiting for a key (inst is the Fx0A it had fetched)
C16_Witness ==
    /\ Running /\ cycle = 0 /\ inst = 62218 /\ FieldsAsNew
    /\ DOMAIN ram = 512..(RAM_SIZE - 1)
    /\ data(Cpu, RAM_SIZE - 1) = FillRom(ROM_SPACE)[ROM_SPACE]

(* ---- C17 ---- *)
C17_Step ==
    (Running /\ Becomes(reset(Cpu))) =>
        /\ FieldsAsNew'
        /\ v' = new(clock_speed).v /\ stack' = new(clock_speed).stack
        /\ screen' = new(clock_speed).screen
        /\ \A a \in 0..(PROGRAM_START - 1) : data(Cpu', a) = data(new(clock_speed), a)

\* C17: after any load_rom that fits and any number of ticks, reset() leaves
\* V0..VF, I, PC, stack pointer, stack, both timers, the framebuffer and the
\* key-wait flag as Cpu::new makes them, and memory below 0x200 as well.
C17_ResetIsFresh == [][C17_Step]_vars

\* reset() has been called on a VM that had loaded a ROM, drawn, set its
\* delay timer and was waiting for a key
C17_Witness ==
    /\ Running /\ cycle = 0 /\ inst = 62218 /\ FieldsAsNew
    /\ ram = NoCells

(* ------------------------------- decoding ------------------------------ *)
\* LD V1, 5 ; then the word w
DecodeRom(w) == Asm(<<24837, w>>)

\* every 16-bit word
Words == 0..(WORD - 1)

DecodeKeys == {1}

MaxDecodeCycle == 2

InitDecode == \E w \in Words : InitAs(load_rom(new(500), DecodeRom(w)))

TickDecode == TickUpTo(MaxDecodeCycle)

KeyDownDecode ==
    /\ Running
    /\ \E k \in DecodeKeys : Becomes([Cpu EXCEPT !.pressed_keys[k] = TRUE])

KeyUpDecode ==
    /\ Running
    /\ \E k \in DecodeKeys : Becomes([Cpu EXCEPT !.pressed_keys[k] = FALSE])

NextDecode == TickDecode \/ KeyDownDecode \/ KeyUpDecode

SpecDecode == InitDecode /\ [][NextDecode]_vars

\* the sub-codes of the F family that are instructions
F_SUBCODES == {7, 10, 21, 24, 30, 41, 51, 85, 101}

\* the words that are no instruction encoding: 8xyN with N in 8..D or F, ExNN
\* other than Ex9E and ExA1, FxNN outside the sub-codes, 5xyN and 9xyN with
\* N # 0. (0nnn is SYS.)
Undefined(w) ==
    \/ OpOf(w) = 8 /\ NOf(w) \in (8..13) \cup {15}
    \/ OpOf(w) = 14 /\ KKOf(w) \notin {158, 161}
    \/ OpOf(w) = 15 /\ KKOf(w) \notin F_SUBCODES
    \/ OpOf(w) \in {5, 9} /\ NOf(w) # 0

(* ---- C18 ---- *)
C18_Step ==
    (TickStep /\ Fetching /\ Undefined(NextInst)) =>
        /\ fault' = "IllegalInstruction"
        /\ UNCHANGED <<v, i, stack, sp, dt, st, ram, screen, hold_flag>>
        /\ pc' = pc + 2

\* C18: a fetched word that is no instruction encoding (8xyN with N in 8..D
\* or F, ExNN other than 9E/A1, FxNN outside the sub-codes, 5xyN or 9xyN with
\* N # 0) faults with IllegalInstruction and has no other effect than the
\* fetch: it is not executed as another instruction.
C18_UndefinedOpcodesFault == [][C18_Step]_vars

\* what the decoder does: the listed words of the 8, E and F families fault,
\* and 5xyN, 9xyN are executed as 5xy0, 9xy0 whatever N is
C18_Observed_Step ==
    (TickStep /\ Fetching /\ Undefined(NextInst)) =>
        IF OpOf(NextInst) \in {5, 9}
        THEN /\ Running'
             /\ pc' = IF (v[XOf(NextInst)] = v[YOf(NextInst)]) <=> (OpOf(NextInst) = 5)
                      THEN pc + 4 ELSE pc + 2
        ELSE /\ fault' = "IllegalInstruction"
             /\ UNCHANGED <<v, i, stack, sp, dt, st, ram, screen, hold_flag>>
             /\ pc' = pc + 2

C18_Observed == [][C18_Observed_Step]_vars

(* ---- C19 ---- *)
IsSkip(w) ==
    \/ OpOf(w) \in {3, 4}
    \/ OpOf(w) \in {5, 9} /\ NOf(w) = 0
    \/ OpOf(w) = 14 /\ KKOf(w) \in {158, 161}

\* jumps, calls and returns: 1nnn, 2nnn, Bnnn, 00EE, and 0nnn (SYS)
IsJump(w) ==
    \/ OpOf(w) \in {1, 2, 11}
    \/ OpOf(w) = 0 /\ KKOf(w) # 224

\* the condition under which the skip instruction w skips, in state s
SkipCondition(s, w) ==
    CASE OpOf(w) = 3 -> s.v[XOf(w)] = KKOf(w)
      [] OpOf(w) = 4 -> s.v[XOf(w)] # KKOf(w)
      [] OpOf(w) = 5 -> s.v[XOf(w)] = s.v[YOf(w)]
      [] OpOf(w) = 9 -> s.v[XOf(w)] # s.v[YOf(w)]
      [] OpOf(w) = 14 /\ KKOf(w) = 158 ->
             s.v[XOf(w)] < NUM_KEYS /\ s.pressed_keys[s.v[XOf(w)]]
      [] OpOf(w) = 14 /\ KKOf(w) = 161 ->
             ~(s.v[XOf(w)] < NUM_KEYS /\ s.pressed_keys[s.v[XOf(w)]])

C19_Step ==
    (TickStep /\ Fetching /\ ~Undefined(NextInst)) =>
        /\ IsSkip(NextInst) =>
              /\ Running'
              /\ pc' = IF SkipCondition(Cpu, NextInst) THEN pc + 4 ELSE pc + 2
              /\ UNCHANGED <<v, ram, screen>>
        /\ (~IsSkip(NextInst) /\ ~IsJump(NextInst)
                /\ ~(IsLdK(NextInst) /\ NoKeyHeld)) => pc' = pc + 2

\* C19: a skip instruction (3xkk, 4xkk, 5xy0, 9xy0, Ex9E, ExA1) fetched at a
\* leaves PC = a + 4 when its condition holds (for Ex9E: the key whose number
\* is in Vx is held; for ExA1: it is not) and a + 2 otherwise, and changes no
\* register, memory cell or pixel; every instruction that is neither a skip
\* nor a jump, call or return nor a stalling Fx0A leaves PC = a + 2.
C19_SkipAndAdvance == [][C19_Step]_vars

\* what skp and sknp test: the key whose number is the x field of the
\* instruction, not the key whose number is in Vx
SkipTaken(s, w) ==
    IF OpOf(w) = 14
    THEN s.pressed_keys[XOf(w)] <=> (KKOf(w) = 158)
    ELSE SkipCondition(s, w)

C19_Observed_Step ==
    (TickStep /\ Fetching /\ ~Undefined(NextInst)) =>
        /\ IsSkip(NextInst) =>
              /\ Running'
              /\ pc' = IF SkipTaken(Cpu, NextInst) THEN pc + 4 ELSE pc + 2
              /\ UNCHANGED <<v, ram, screen>>
        /\ (~IsSkip(NextInst) /\ ~IsJump(NextInst)
                /\ ~(IsLdK(NextInst) /\ NoKeyHeld)) => pc' = pc + 2

C19_Observed == [][C19_Observed_Step]_vars

(* ---- C20 ---- *)
\* a step of the core: tick(), reset() or load_rom (succeeding or failing)
CoreStep == Tick \/ Reset \/ LoadRom \/ LoadRomErr

\* C20: no operation of the core changes any of the 16 pressed-key entries:
\* neither tick() (fetching, stalled, or consuming a key for Fx0A) nor reset()
\* nor load_rom; a key the host holds stays recorded as held across them.
C20_CoreKeepsPressedKeys == [][CoreStep => pressed_keys' = pressed_keys]_vars

\* what the core does to the array: tick() leaves it alone; reset(), and with
\* it load_rom, marks all 16 keys as released
C20_Observed ==
    [][/\ Tick => pressed_keys' = pressed_keys
       /\ (Reset \/ LoadRom \/ LoadRomErr) =>
              pressed_keys' = [k \in 0..(NUM_KEYS - 1) |-> FALSE]]_vars

(* ======================= C21 .. C27 ==================================== *)

(* --------------------------- flag instructions ------------------------- *)
\* the 8xyN instructions that define a flag: add, subtract, shifts
FlagOps == {4, 5, 6, 7, 14}

\* x = 0xF with another and with the same y; x # 0xF with y = 0xF and without
FlagRegs == {<<15, 0>>, <<15, 15>>, <<3, 15>>, <<3, 7>>}

MaxFlagCycle == 3

\* LD Vx,a; LD Vy,b; 8xyN; JP 0x206, for all bytes a
InitFlag ==
    \E xy \in FlagRegs, n \in FlagOps, a \in Bytes, b \in ByteSamples :
        InitAs(load_rom(new(500), AluRom(xy[1], xy[2], a, b, n)))

TickFlag == TickUpTo(MaxFlagCycle)

NextFlag == TickFlag

SpecFlag == InitFlag /\ [][NextFlag]_vars

\* the next tick executes 8xyN
FlagTick(n) == TickStep /\ Fetching /\ OpOf(NextInst) = 8 /\ NOf(NextInst) = n

\* the flag 8xyN defines for operands a = Vx, b = Vy: carry, no borrow, the
\* bit shifted out
FlagOf(n, a, b) ==
    CASE n = 4 -> IF a + b > 255 THEN 1 ELSE 0
      [] n = 5 -> IF a >= b THEN 1 ELSE 0
      [] n = 7 -> IF b >= a THEN 1 ELSE 0
      [] n = 6 -> a % 2
      [] n = 14 -> a \div 128

(* ---- C21 ---- *)
C21_Step ==
    \A n \in FlagOps :
        FlagTick(n) => v'[15] = FlagOf(n, v[XOf(NextInst)], v[YOf(NextInst)])

\* C21: after 8xy4, 8xy5, 8xy7, 8xy6 and 8xyE, VF holds the flag of that
\* instruction (0 or 1) for every x, x = 0xF included, where the result and
\* the flag are written to the same register.
C21_FlagInVF == [][C21_Step]_vars

\* what the instructions leave in VF: add the carry for every x; the
\* subtractions the borrow (1 when a borrow occurs) for every x; the shifts
\* the bit shifted out when x # 0xF, but with x = 0xF the flag is written
\* first and then shifted itself: 8Fy6 leaves 0 and 8FyE leaves 0 or 2
C21_Observed_Step ==
    LET a == v[XOf(NextInst)]
        b == v[YOf(NextInst)]
        x == XOf(NextInst)
    IN /\ FlagTick(4) => v'[15] = FlagOf(4, a, b)
       /\ FlagTick(5) => v'[15] = IF a < b THEN 1 ELSE 0
       /\ FlagTick(7) => v'[15] = IF b < a THEN 1 ELSE 0
       /\ FlagTick(6) => v'[15] = IF x = 15 THEN 0 ELSE a % 2
       /\ FlagTick(14) => v'[15] = IF x = 15 THEN 2 * (a \div 128) ELSE a \div 128

C21_Observed == [][C21_Observed_Step]_vars

\* the flag of a draw that completes: 1 when a set sprite bit met a lit pixel
C21_DrawFlag_Step ==
    (TickStep /\ Fetching /\ IsDrw(NextInst) /\ Running') =>
        v'[15] = IF SpritePixels(Cpu, v[XOf(NextInst)], v[YOf(NextInst)],
                                 NOf(NextInst)) \cap screen # {}
                 THEN 1 ELSE 0

C21_DrawFlag == [][C21_DrawFlag_Step]_vars

(* ---- C22 ---- *)
C22_Step ==
    LET x == XOf(NextInst)
    IN /\ (FlagTick(6) /\ x # 15) =>
             /\ v'[15] = v[x] % 2
             /\ v'[x] = v[x] \div 2
             /\ \A r \in 0..14 : r # x => v'[r] = v[r]
       /\ (FlagTick(14) /\ x # 15) =>
             /\ v'[15] = v[x] \div 128
             /\ v'[15] \in {0, 1}
             /\ v'[x] = (2 * v[x]) % 256
             /\ \A r \in 0..14 : r # x => v'[r] = v[r]

\* C22: for every byte v in Vx, x # 0xF: 8xy6 sets VF = v mod 2 and
\* Vx = v div 2; 8xyE sets VF = v div 128 (0 or 1) and Vx = (2 * v) mod 256;
\* no register other than Vx and VF changes.
C22_Shifts == [][C22_Step]_vars

\* LD V3,0x81; LD V7,b; SHL V3 has run: V3 = 0x02 with VF = 1
C22_Witness ==
    /\ Running /\ inst = 33662 /\ cycle = 3
    /\ data(Cpu, 513) = 129 /\ v[3] = 2 /\ v[15] = 1

(* ------------------------------ block copies --------------------------- *)
\* LD V0,a ; LD V1,b ; LD VF,0xAB ; LD I,addr ; LD [I],Vx ; LD Vx,[I] ;
\* LD I,0 ; LD Vx,[I] ; JP 0x210
BlockRom(x, a, b, addr) ==
    Asm(<<24576 + a, 24832 + b, 28587, 40960 + addr, 61525 + 256 * x,
          61541 + 256 * x, 40960, 61541 + 256 * x, 4624>>)

BlockRegs == {0, 1, 7, 15}

\* inside the font table, in free memory, and the last address with I+15 in memory
BlockAddrs == {70, 768, 4080}

MaxBlockCycle == 9

InitBlock ==
    \E x \in BlockRegs, a \in Bytes, b \in ByteSamples, addr \in BlockAddrs :
        InitAs(load_rom(new(500), BlockRom(x, a, b, addr)))

TickBlock == TickUpTo(MaxBlockCycle)

NextBlock == TickBlock

SpecBlock == InitBlock /\ [][NextBlock]_vars

IsCpvi(w) == OpOf(w) = 15 /\ KKOf(w) = 85
IsLdiv(w) == OpOf(w) = 15 /\ KKOf(w) = 101

\* the addresses at which memories r and q differ (cells neither records are
\* as Ram::new made them in both)
Changed(r, q) ==
    {a \in (DOMAIN r) \cup (DOMAIN q) :
        (IF a \in DOMAIN r THEN r[a] ELSE Ram_new[a])
            # (IF a \in DOMAIN q THEN q[a] ELSE Ram_new[a])}

(* ---- C23 ---- *)
C23_Step ==
    LET x == XOf(NextInst)
    IN /\ (TickStep /\ Fetching /\ IsCpvi(NextInst) /\ i + x < RAM_SIZE) =>
             /\ Running'
             /\ \A k \in 0..x : data(Cpu', i + k) = v[k]
             /\ Changed(ram, ram') \subseteq i..(i + x)
             /\ v' = v /\ i' = i
       /\ (TickStep /\ Fetching /\ IsLdiv(NextInst) /\ i + x < RAM_SIZE) =>
             /\ Running'
             /\ \A k \in 0..x : v'[k] = data(Cpu, i + k)
             /\ \A r \in (x + 1)..15 : v'[r] = v[r]
             /\ Changed(ram, ram') = {} /\ i' = i
       /\ (TickStep /\ Fetching /\ IsLdiv(NextInst) /\ IsCpvi(inst)
               /\ XOf(inst) = x /\ i + x < RAM_SIZE) => v' = v

\* C23: Fx55 stores V0..Vx at memory[I..I+x] and changes no other cell, no
\* register and not I; Fx65 loads V0..Vx from memory[I..I+x] and changes no
\* register above Vx, no memory cell and not I; Fx65 right after Fx55 with the
\* same x leaves every register as it was.
C23_BlockCopies == [][C23_Step]_vars

\* all 16 registers have been stored at the last 16 bytes of memory and
\* loaded back
C23_Witness ==
    /\ Running /\ inst = 65381 /\ cycle = 6 /\ i = 4080
    /\ data(Cpu, 4095) = 171 /\ v[15] = 171 /\ v[0] = 255 /\ data(Cpu, 4080) = 255

(* ------------------------------ framebuffer ---------------------------- *)
\* DRW V0, V0, 5 (the glyph at I = 0 drawn at the origin) ; then the word w
FrameRom(w) == Asm(<<53253, w>>)

MaxFrameCycle == 3

InitFrame == \E w \in Words : InitAs(load_rom(new(500), FrameRom(w)))

TickFrame == TickUpTo(MaxFrameCycle)

NextFrame == TickFrame

SpecFrame == InitFrame /\ [][NextFrame]_vars

IsCls(w) == w = 224

(* ---- C24 ---- *)
C24_Step ==
    /\ (TickStep /\ ~(Fetching /\ (IsDrw(NextInst) \/ IsCls(NextInst)))) =>
           screen' = screen
    /\ (TickStep /\ Fetching /\ IsCls(NextInst)) => screen' = {}

\* C24: a tick changes the framebuffer only by executing Dxyn or 00E0 (which
\* leaves every pixel off): a tick that executes any other word, and a tick
\* spent waiting for a key, leaves all pixels as they were.
C24_FramebufferFrame == [][C24_Step]_vars

\* what the decoder does: in the 0 family it looks at the low byte only
\* (0nE0 is cls for every n), so 0x01E0 .. 0x0FE0 clear the display too
C24_Observed_Step ==
    /\ (TickStep /\ ~(Fetching /\ (IsDrw(NextInst)
                                    \/ (OpOf(NextInst) = 0 /\ KKOf(NextInst) = 224)))) =>
           screen' = screen
    /\ (TickStep /\ Fetching /\ OpOf(NextInst) = 0 /\ KKOf(NextInst) = 224) =>
           screen' = {}

C24_Observed == [][C24_Observed_Step]_vars

(* ----------------------------- memory bounds --------------------------- *)
\* LD V0,a ; then a jump to nnn: JP nnn, SYS nnn or JP V0,nnn
JumpRom(op, nnn, a) == Asm(<<24576 + a, op * 4096 + nnn>>)

\* LD V0,a ; LD I,nnn ; ADD I,V0 ; then the word w, which uses I
IndexRom(nnn, a, w) == Asm(<<24576 + a, 40960 + nnn, 61470, w>>)

\* a ROM filling memory to its end: JP 0xFFE ; RET ; zeros ; the word w as
\* the last instruction, at 0xFFE
TailRom(w) ==
    [k \in 1..ROM_SPACE |->
        CASE k = 1 -> 31 [] k = 2 -> 254 [] k = 3 -> 0 [] k = 4 -> 238
          [] k = ROM_SPACE - 1 -> w \div 256 [] k = ROM_SPACE -> w % 256
          [] OTHER -> 0]

JumpOps == {0, 1, 11}
EdgeAddrs == {4080, 4093, 4094, 4095}
Offsets == {0, 1, 2, 255}

\* DRW V1,V2,n ; LD B,V1 ; LD [I],Vx ; LD Vx,[I]
IndexWords == {53536, 53537, 53538, 53551, 61747, 61525, 61781, 65365, 61541, 61797, 65381}

\* last instructions: LD V0,0 (run past the end) and CALL 0x202 (return past it)
TailWords == {24576, 8706}

BoundsRoms ==
    {JumpRom(op, nnn, a) : op \in JumpOps, nnn \in EdgeAddrs, a \in Offsets}
      \cup {IndexRom(nnn, a, w) : nnn \in EdgeAddrs, a \in Offsets, w \in IndexWords}
      \cup {TailRom(w) : w \in TailWords}

MaxBoundsCycle == 5

InitBounds == \E contents \in BoundsRoms : InitAs(load_rom(new(500), contents))

TickBounds == TickUpTo(MaxBoundsCycle)

NextBounds == TickBounds

SpecBounds == InitBounds /\ [][NextBounds]_vars

\* the memory addresses the instruction w indexes through I, in state s
OperandAddresses(s, w) ==
    CASE IsDrw(w) -> s.i..(s.i + NOf(w) - 1)
      [] IsLdBcd(w) -> {s.i}
      [] IsCpvi(w) \/ IsLdiv(w) -> s.i..(s.i + XOf(w))
      [] OTHER -> {}

\* the memory addresses the next tick indexes, unless an earlier one of them
\* stops it: the fetch at pc and pc + 1, then the operands of the instruction
TickAddresses(s) ==
    IF s.hold_flag THEN {}
    ELSE IF s.pc + 1 >= RAM_SIZE THEN {s.pc, s.pc + 1}
    ELSE {s.pc, s.pc + 1} \cup OperandAddresses(s, Word(s, s.pc))

C25_Observed_Step ==
    TickStep =>
        /\ (fault' = "IndexOutOfBounds")
               <=> ~(TickAddresses(Cpu) \subseteq 0..(RAM_SIZE - 1))
        /\ DOMAIN ram' \subseteq 0..(RAM_SIZE - 1)

C25_Observed == [][C25_Observed_Step]_vars

(* ----------------------------- stalled timers -------------------------- *)
\* LD V0,2 ; LD DT,V0 ; LD V1,K
ROM_STALL == Asm(<<24578, 61461, 61706>>)

StallRates == {60, 180, 500}

MaxStallCycle == 150

\* the cycle count by which a delay of 2 has run out at 60 Hz and at 500 Hz
DrainCycles == 100

InitStall == \E clock \in StallRates : InitAs(load_rom(new(clock), ROM_STALL))

TickStall == TickUpTo(MaxStallCycle)

NextStall == TickStall

SpecStall == InitStall /\ [][NextStall]_vars

(* ---- C26 ---- *)
\* C26: at every clock rate a nonzero timer that no instruction rewrites runs
\* out under continued ticks, also while the VM waits for a key that never
\* comes: here, the delay of 2 set before the wait is 0 once DrainCycles
\* cycles have been counted.
C26_TimerRunsOutWhileStalled ==
    (Running /\ hold_flag /\ cycle >= DrainCycles) => dt = 0

\* why it never runs out at 180 Hz: a stalled tick adds 2 to cycle before the
\* cadence test and 1 after it, so with 3 cycles per 60 Hz period a wait
\* entered at a cycle count divisible by 3 tests 3k + 2 on every tick, and the
\* timers are never updated
C26_Observed_Step ==
    (TickStep /\ hold_flag /\ NoKeyHeld /\ clock_speed = 180 /\ cycle % 3 = 0) =>
        /\ dt' = dt /\ st' = st
        /\ hold_flag' /\ cycle' % 3 = 0

C26_Observed == [][C26_Observed_Step]_vars

\* at 60 Hz and at 500 Hz the delay does run out during the wait
C26_Drained ==
    (Running /\ hold_flag /\ cycle >= DrainCycles /\ clock_speed # 180) => dt = 0

(* ---- C27 ---- *)
\* the keys the host holds
HeldKeys == {k \in 0..(NUM_KEYS - 1) : pressed_keys[k]}

\* b is the lowest-numbered held key
IsLowestHeld(b) == b \in HeldKeys /\ \A k \in HeldKeys : b <= k

C27_Step ==
    /\ (TickStep /\ Fetching /\ IsLdK(NextInst) /\ HeldKeys # {}) =>
           /\ IsLowestHeld(v'[XOf(NextInst)])
           /\ ~hold_flag' /\ pc' = pc + 2
    /\ (TickStep /\ hold_flag /\ HeldKeys # {}) =>
           /\ IsLowestHeld(v'[XOf(inst)])
           /\ ~hold_flag' /\ pc' = pc

\* C27: when Fx0A is executed, or a tick runs while waiting for a key, with
\* one or more keys held, Vx receives the lowest-numbered held key; Fx0A
\* executed with a key already held stores it on that tick and does not start
\* waiting.
C27_LowestKeyChosen == [][C27_Step]_vars

\* LD V3,K has been executed with keys 4 and F held from before: V3 = 4 on
\* that tick, without waiting
C27_Witness ==
    /\ Running /\ inst = 62218 /\ cycle = 6 /\ ~hold_flag
    /\ HeldKeys = {4, 15} /\ v[3] = 4

====
